---------------------------- MODULE Spec2Model ----------------------------
(***************************************************************************)
(* Model of src/app.py: the Streamlit page that reads an uploaded ledger   *)
(* into a DataFrame, calls processar_conciliacao(df) and displays what it  *)
(* returns.                                                                *)
(*                                                                         *)
(* Text is a sequence of one-character strings.  A float64 is modelled     *)
(* exactly, as a sign and a magnitude counted in units of 2^-64 and held   *)
(* in limbs of 20 bits, rounded to 53 significant bits after every         *)
(* operation, so that Decimal(float) sees the binary value pandas holds.   *)
(***************************************************************************)
EXTENDS Integers, Sequences, FiniteSets, TLC

(***************************************************************************)
(* Bounds of the model: the most lines of a file read as text, of a file   *)
(* whose amount column is numeric, and of a file with an incomplete        *)
(* header.                                                                 *)
(***************************************************************************)
MaxRows == 4
MaxRowsNumerico == 2
MaxRowsIncompleto == 1

(***************************************************************************)
(* Text helpers.                                                           *)
(***************************************************************************)
Digits == {"0", "1", "2", "3", "4", "5", "6", "7", "8", "9"}

DigitVal(c) ==
    CASE c = "0" -> 0 [] c = "1" -> 1 [] c = "2" -> 2 [] c = "3" -> 3
      [] c = "4" -> 4 [] c = "5" -> 5 [] c = "6" -> 6 [] c = "7" -> 7
      [] c = "8" -> 8 [] c = "9" -> 9

DigitChar(d) == <<"0", "1", "2", "3", "4", "5", "6", "7", "8", "9">>[d + 1]

AllDigits(s) == \A i \in 1..Len(s) : s[i] \in Digits

RECURSIVE DigitsToNat(_)
DigitsToNat(s) ==
    IF s = <<>> THEN 0
    ELSE 10 * DigitsToNat(SubSeq(s, 1, Len(s) - 1)) + DigitVal(s[Len(s)])

RECURSIVE NatToDigits(_)
NatToDigits(n) ==
    IF n < 10 THEN <<DigitChar(n)>>
    ELSE NatToDigits(n \div 10) \o <<DigitChar(n % 10)>>

\* str.replace(old, new, regex=False) for a one-character old and a new of
\* zero or one character (new is a sequence).
RECURSIVE StrReplace(_, _, _)
StrReplace(s, old, new) ==
    IF s = <<>> THEN <<>>
    ELSE (IF Head(s) = old THEN new ELSE <<Head(s)>>)
             \o StrReplace(Tail(s), old, new)

Pow10(k) == CASE k = 0 -> 1 [] k = 1 -> 10 [] k = 2 -> 100 [] k = 3 -> 1000

RECURSIVE Pow2(_)
Pow2(k) == IF k = 0 THEN 1 ELSE 2 * Pow2(k - 1)

(***************************************************************************)
(* float64.  A float is a record [neg, mag] with mag a tuple of Limbs      *)
(* limbs, least significant first, of LimbBits bits each, counting units   *)
(* of 2^-FracBits; NaN has the empty magnitude.                            *)
(***************************************************************************)
Mantissa == 53
LimbBits == 20
Limbs == 5
FracBits == 64

\* float('nan'): the one float with no magnitude
FNaN == [neg |-> FALSE, mag |-> <<>>]
Base == Pow2(LimbBits)
BigZero == [i \in 1..Limbs |-> 0]

RECURSIVE AddFrom(_, _, _, _)
AddFrom(a, b, i, c) ==
    IF i > Limbs THEN <<>>
    ELSE LET s == a[i] + b[i] + c
         IN  <<s % Base>> \o AddFrom(a, b, i + 1, s \div Base)
BigAdd(a, b) == AddFrom(a, b, 1, 0)

\* a - b for a >= b
RECURSIVE SubFrom(_, _, _, _)
SubFrom(a, b, i, c) ==
    IF i > Limbs THEN <<>>
    ELSE LET s == a[i] - b[i] - c
         IN  IF s < 0 THEN <<s + Base>> \o SubFrom(a, b, i + 1, 1)
                      ELSE <<s>> \o SubFrom(a, b, i + 1, 0)
BigSub(a, b) == SubFrom(a, b, 1, 0)

RECURSIVE LessFrom(_, _, _)
LessFrom(a, b, i) ==
    IF i = 0 THEN FALSE
    ELSE IF a[i] # b[i] THEN a[i] < b[i] ELSE LessFrom(a, b, i - 1)
BigLess(a, b) == LessFrom(a, b, Limbs)

RECURSIVE MulFrom(_, _, _, _)
MulFrom(a, k, i, c) ==
    IF i > Limbs THEN <<>>
    ELSE LET s == a[i] * k + c
         IN  <<s % Base>> \o MulFrom(a, k, i + 1, s \div Base)
\* a * k for a small natural k
BigMulSmall(a, k) == MulFrom(a, k, 1, 0)

BigPow2(k) ==
    [i \in 1..Limbs |-> IF i = (k \div LimbBits) + 1 THEN Pow2(k % LimbBits) ELSE 0]

BitAt(a, k) == (a[(k \div LimbBits) + 1] \div Pow2(k % LimbBits)) % 2

\* a mod 2^k
BigModPow2(a, k) ==
    [i \in 1..Limbs |->
        IF i <= k \div LimbBits THEN a[i]
        ELSE IF i = (k \div LimbBits) + 1 THEN a[i] % Pow2(k % LimbBits)
        ELSE 0]

\* number of significant bits of a (0 for zero)
BitLen(a) ==
    IF a = BigZero THEN 0
    ELSE LET top == CHOOSE i \in 1..Limbs :
                        a[i] # 0 /\ \A j \in (i + 1)..Limbs : a[j] = 0
             bits == CHOOSE k \in 1..LimbBits :
                        Pow2(k - 1) <= a[top] /\ a[top] < Pow2(k)
         IN  (top - 1) * LimbBits + bits

\* round-to-nearest, ties-to-even, to Mantissa significant bits: the
\* rounding every IEEE 754 binary64 operation applies to its exact result
Round53(a) ==
    LET cut == BitLen(a) - Mantissa
    IN  IF cut <= 0 THEN a
        ELSE LET low   == BigModPow2(a, cut)
                 half  == BigPow2(cut - 1)
                 trunc == BigSub(a, low)
                 up    == BigLess(half, low) \/ (low = half /\ BitAt(a, cut) = 1)
             IN  IF up THEN BigAdd(trunc, BigPow2(cut)) ELSE trunc

MkFloat(neg, mag) == [neg |-> neg /\ mag # BigZero, mag |-> mag]

FZero == MkFloat(FALSE, BigZero)

FNeg(x) == MkFloat(~x.neg, x.mag)

\* Series.abs()
FAbs(x) == MkFloat(FALSE, x.mag)

\* x + y in binary64
FAdd(x, y) ==
    IF x.neg = y.neg THEN MkFloat(x.neg, Round53(BigAdd(x.mag, y.mag)))
    ELSE IF BigLess(x.mag, y.mag)
         THEN MkFloat(y.neg, Round53(BigSub(y.mag, x.mag)))
         ELSE MkFloat(x.neg, Round53(BigSub(x.mag, y.mag)))

FSub(x, y) == FAdd(x, FNeg(y))

\* long division of num * 2^FracBits by den, most significant limb first;
\* r is the running remainder.  Returns the final remainder followed by
\* the quotient limbs, least significant first.
RECURSIVE DivFrom(_, _, _, _)
DivFrom(a, den, i, r) ==
    IF i = 0 THEN <<r>>
    ELSE LET cur == r * Base + a[i]
         IN  DivFrom(a, den, i - 1, cur % den) \o <<cur \div den>>

\* The binary64 nearest to the decimal num / 10^scale (num >= 0): what
\* pd.to_numeric / the CSV reader store for such a literal.
FromDecimal(neg, num, scale) ==
    LET sh   == Pow2(FracBits - 3 * LimbBits)
        a    == [i \in 1..Limbs |->
                    IF i = 4 THEN (num * sh) % Base
                    ELSE IF i = 5 THEN (num * sh) \div Base
                    ELSE 0]
        d    == DivFrom(a, Pow10(scale), Limbs, 0)
        rem  == d[1]
        q    == SubSeq(d, 2, Limbs + 1)
        \* a non-zero remainder lies strictly below the last unit: keep it
        \* as a sticky bit so that the rounding sees it
        qs   == IF rem # 0 /\ q[1] % 2 = 0 THEN [q EXCEPT ![1] = q[1] + 1] ELSE q
    IN  MkFloat(neg, Round53(qs))

\* Decimal(x).quantize(Decimal('0.01'), rounding=ROUND_HALF_UP) for x >= 0,
\* as a number of hundredths: floor(100 * x + 1/2) on the exact binary value
QuantizeCents(x) ==
    LET y == BigAdd(BigMulSmall(x.mag, 100), BigPow2(FracBits - 1))
    IN  (y[4] \div Pow2(FracBits - 3 * LimbBits))
            + y[5] * Pow2(4 * LimbBits - FracBits)

\* groupby(...).sum() accumulates each group with Kahan summation, in row
\* order: y = val - comp; t = sum + y; comp = (t - sum) - y; sum = t
RECURSIVE KahanFrom(_, _, _, _)
KahanFrom(vals, i, sumx, comp) ==
    IF i > Len(vals) THEN sumx
    ELSE LET y == FSub(vals[i], comp)
             t == FAdd(sumx, y)
         IN  KahanFrom(vals, i + 1, t, FSub(FSub(t, sumx), y))
group_sum(vals) == KahanFrom(vals, 1, FZero, FZero)

(***************************************************************************)
(* Cells.  Every cell is a record of the same shape: k is the Python type  *)
(* of the value ("str", "float", "datetime"), and s, f, d hold the value   *)
(* of that type.  A missing cell is float NaN; a missing date is NaT.      *)
(***************************************************************************)
NoDate == [y |-> 0, m |-> 0, d |-> 0]
Str(s) == [k |-> "str", s |-> s, f |-> FNaN, d |-> NoDate]
Num(f) == [k |-> "float", s |-> <<>>, f |-> f, d |-> NoDate]
Ts(d) == [k |-> "datetime", s |-> <<>>, f |-> FNaN, d |-> d]
NaNCell == Num(FNaN)
NaT == Ts(NoDate)

\* pd.isna
IsNA(c) == c = NaNCell \/ c = NaT

(***************************************************************************)
(* Parsing.                                                                *)
(***************************************************************************)
RECURSIVE Split(_, _)
Split(s, sep) ==
    IF s = <<>> THEN << <<>> >>
    ELSE LET rest == Split(Tail(s), sep)
         IN  IF Head(s) = sep THEN << <<>> >> \o rest
             ELSE << <<Head(s)>> \o Head(rest) >> \o Tail(rest)

IsLeap(y) == (y % 4 = 0 /\ y % 100 # 0) \/ y % 400 = 0

DaysInMonth(y, m) ==
    IF m = 2 THEN (IF IsLeap(y) THEN 29 ELSE 28)
    ELSE IF m \in {4, 6, 9, 11} THEN 30 ELSE 31

\* strptime(s, '%d/%m/%Y'); NoDate when s does not match (errors='coerce')
ParseDate(s) ==
    LET p == Split(s, "/")
    IN  IF /\ Len(p) = 3
           /\ \A i \in 1..3 : p[i] # <<>> /\ AllDigits(p[i])
           /\ Len(p[1]) <= 2 /\ Len(p[2]) <= 2 /\ Len(p[3]) = 4
        THEN LET d == DigitsToNat(p[1])
                 m == DigitsToNat(p[2])
                 y == DigitsToNat(p[3])
             IN  IF m \in 1..12 /\ d >= 1 /\ d <= DaysInMonth(y, m)
                 THEN [y |-> y, m |-> m, d |-> d]
                 ELSE NoDate
        ELSE NoDate

\* pd.to_datetime(cell, format='%d/%m/%Y', errors='coerce')
to_datetime(c) ==
    IF c.k = "datetime" THEN c
    ELSE IF c.k = "str" THEN Ts(ParseDate(c.s))
    ELSE NaT

\* pd.to_numeric(s, errors='coerce') of a text of digits, sign, '.' and
\* other characters: [sign] digits [. digits], anything else is NaN
ParseNumeric(s) ==
    LET signed == s # <<>> /\ Head(s) \in {"-", "+"}
        body   == IF signed THEN Tail(s) ELSE s
        p      == Split(body, ".")
        int    == p[1]
        frac   == IF Len(p) = 2 THEN p[2] ELSE <<>>
    IN  IF /\ Len(p) \in {1, 2}
           /\ AllDigits(int) /\ AllDigits(frac)
           /\ int \o frac # <<>>
        THEN FromDecimal(signed /\ Head(s) = "-", DigitsToNat(int \o frac), Len(frac))
        ELSE FNaN

\* Series.astype(str) on one cell of an object column
astype_str(c) == IF c.k = "str" THEN c.s ELSE <<"n", "a", "n">>

\* line 31-32 on one cell: .astype(str).str.replace('.', '')
\* .str.replace(',', '.') and then pd.to_numeric(errors='coerce')
ConverterValor(c) ==
    Num(ParseNumeric(StrReplace(StrReplace(astype_str(c), ".", <<>>), ",", <<".">>)))

(***************************************************************************)
(* The uploaded files the model reads.  A ledger line is given by its      *)
(* texts; pd.read_csv / pd.read_excel turn it into a row.                  *)
(***************************************************************************)
T(str) == CASE str = "01/03/2024" -> <<"0", "1", "/", "0", "3", "/", "2", "0", "2", "4">>
            [] str = "15/04/2024" -> <<"1", "5", "/", "0", "4", "/", "2", "0", "2", "4">>
            [] str = "31/02/2024" -> <<"3", "1", "/", "0", "2", "/", "2", "0", "2", "4">>
            [] str = "1.250,00"   -> <<"1", ".", "2", "5", "0", ",", "0", "0">>
            [] str = "-1.250,00"  -> <<"-", "1", ".", "2", "5", "0", ",", "0", "0">>
            [] str = "2,005"      -> <<"2", ",", "0", "0", "5">>
            [] str = "-2,005"     -> <<"-", "2", ",", "0", "0", "5">>
            [] str = "abc"        -> <<"a", "b", "c">>

CatSaida == <<"Transferência de Saída">>
CatEntrada == <<"Transferência de Entrada">>

L(data, valor, categoria, conta) ==
    [data |-> Str(T(data)), valor |-> Str(T(valor)), categoria |-> Str(categoria), conta |-> conta]

ContaA == Str(<<"A">>)
ContaB == Str(<<"B">>)

Linhas ==
    { L("01/03/2024", "-1.250,00", CatSaida, ContaA),
      L("01/03/2024", "-1.250,00", CatSaida, ContaB),
      L("01/03/2024", "1.250,00", CatEntrada, ContaB),
      L("01/03/2024", "1.250,00", CatEntrada, NaNCell),
      L("01/03/2024", "-1.250,00", <<"Alimentação">>, ContaA),
      L("31/02/2024", "-1.250,00", CatSaida, ContaA),
      L("01/03/2024", "abc", CatEntrada, ContaB),
      L("15/04/2024", "-2,005", CatSaida, ContaA),
      L("15/04/2024", "2,005", CatEntrada, ContaB) }

\* The conversions of the cells of the ledger lines, each computed once.
DatasConvertidas == [c \in {l.data : l \in Linhas} |-> to_datetime(c)]
ValoresConvertidos == [c \in {l.valor : l \in Linhas} \cup {NaNCell} |-> ConverterValor(c)]

DataDe(c) == IF c \in DOMAIN DatasConvertidas THEN DatasConvertidas[c] ELSE to_datetime(c)
ValorDe(c) == IF c \in DOMAIN ValoresConvertidos THEN ValoresConvertidos[c] ELSE ConverterValor(c)

(***************************************************************************)
(* DataFrames.  A DataFrame is [columns, dtypes, rows]: the set of column  *)
(* names, the dtype of each column, and the rows in order, each row        *)
(* [idx, c] with idx its index label and c its cells by column name.       *)
(***************************************************************************)
colunas_necessarias == <<"Data movimento", "Valor (R$)", "Categoria 1", "Conta bancária">>
ColData == colunas_necessarias[1]
ColValor == colunas_necessarias[2]
ColCategoria == colunas_necessarias[3]
ColConta == colunas_necessarias[4]

\* line 22: all(col in df.columns for col in colunas_necessarias)
TemColunas(d) ==
    \A i \in 1..Len(colunas_necessarias) : colunas_necessarias[i] \in d.columns

\* line 26: df['Data movimento'] = pd.to_datetime(...)
ConverterDatas(d) ==
    [d EXCEPT !.dtypes[ColData] = "datetime64[ns]",
              !.rows = [i \in 1..Len(d.rows) |->
                           [d.rows[i] EXCEPT !.c[ColData] = DataDe(@)]]]

\* lines 28-32: a numeric column is left alone, an object column is
\* rewritten as text and parsed
ConverterValores(d) ==
    IF d.dtypes[ColValor] = "float64" THEN d
    ELSE IF d.dtypes[ColValor] = "object"
    THEN [d EXCEPT !.dtypes[ColValor] = "float64",
                   !.rows = [i \in 1..Len(d.rows) |->
                                [d.rows[i] EXCEPT !.c[ColValor] = ValorDe(@)]]]
    ELSE d

\* mutant of dropna: subset=['Data movimento'] alone
dropna_so_data(d) ==
    [d EXCEPT !.rows = SelectSeq(d.rows, LAMBDA r : ~IsNA(r.c[ColData]))]

\* line 34: df.dropna(subset=['Data movimento', 'Valor (R$)'], inplace=True)
dropna(d) ==
    [d EXCEPT !.rows = SelectSeq(d.rows,
                           LAMBDA r : ~IsNA(r.c[ColData]) /\ ~IsNA(r.c[ColValor]))]

\* lines 26-34: the caller's DataFrame as the function leaves it
Normalizar(d) == dropna(ConverterValores(ConverterDatas(d)))

\* 'Valor Absoluto' (line 38) on the rows given, with the columns the
\* matching reads
ComValorAbsoluto(rows) ==
    [i \in 1..Len(rows) |->
        [idx       |-> rows[i].idx,
         data      |-> rows[i].c[ColData].d,
         valor_abs |-> FAbs(rows[i].c[ColValor].f),
         categoria |-> rows[i].c[ColCategoria],
         conta     |-> rows[i].c[ColConta]]]

\* lines 37-38: the rows of the two transfer categories
transferencias_df(d) ==
    ComValorAbsoluto(SelectSeq(d.rows,
        LAMBDA r : r.c[ColCategoria] \in {Str(CatSaida), Str(CatEntrada)}))

\* groupby(['Data movimento', 'Valor Absoluto']).cumcount(): how many
\* earlier rows of the frame have the same key
cumcount(t) ==
    [i \in 1..Len(t) |->
        [idx       |-> t[i].idx,
         data      |-> t[i].data,
         valor_abs |-> t[i].valor_abs,
         categoria |-> t[i].categoria,
         conta     |-> t[i].conta,
         Contador  |-> Cardinality({j \in 1..(i - 1) :
                           t[j].data = t[i].data /\ t[j].valor_abs = t[i].valor_abs})]]

\* lines 40, 43
saidas(t) == cumcount(SelectSeq(t, LAMBDA r : r.categoria = Str(CatSaida)))

\* mutant of entradas: the incoming legs of a key numbered from the last
entradas_do_fim(t) ==
    LET e == cumcount(SelectSeq(t, LAMBDA r : r.categoria = Str(CatEntrada)))
    IN  [i \in 1..Len(e) |->
            [e[i] EXCEPT !.Contador =
                Cardinality({j \in (i + 1)..Len(e) :
                    e[j].data = e[i].data /\ e[j].valor_abs = e[i].valor_abs})]]

\* lines 41, 44
entradas(t) == cumcount(SelectSeq(t, LAMBDA r : r.categoria = Str(CatEntrada)))

\* mutant of JoinRow: the join without 'Contador' among its keys
JoinRow_sem_contador(l, e) ==
    LET m == SelectSeq(e, LAMBDA r : r.data = l.data /\ r.valor_abs = l.valor_abs)
    IN  [j \in 1..Len(m) |->
            [data        |-> l.data,
             valor_abs   |-> l.valor_abs,
             Contador    |-> l.Contador,
             origem      |-> l.conta,
             destino     |-> m[j].conta,
             idx_saida   |-> l.idx,
             idx_entrada |-> m[j].idx]]

\* the rows of an inner merge for one left row l: one per matching right row
JoinRow(l, e) ==
    LET m == SelectSeq(e, LAMBDA r : /\ r.data = l.data
                                     /\ r.valor_abs = l.valor_abs
                                     /\ r.Contador = l.Contador)
    IN  [j \in 1..Len(m) |->
            [data        |-> l.data,
             valor_abs   |-> l.valor_abs,
             Contador    |-> l.Contador,
             origem      |-> l.conta,
             destino     |-> m[j].conta,
             idx_saida   |-> l.idx,
             idx_entrada |-> m[j].idx]]

\* lines 46-48: pd.merge(saidas, entradas, on=[...]) is an inner join that
\* keeps the order of the left rows
RECURSIVE MergeFrom(_, _, _)
MergeFrom(s, e, i) ==
    IF i > Len(s) THEN <<>>
    ELSE JoinRow(s[i], e) \o MergeFrom(s, e, i + 1)
pd_merge(s, e) == MergeFrom(s, e, 1)

\* mutant of Conciliar: every row that is not an incoming transfer taken
\* as an outgoing one
Conciliar_sem_filtro(d) ==
    LET t == ComValorAbsoluto(d.rows)
    IN  pd_merge(cumcount(SelectSeq(t, LAMBDA r : r.categoria # Str(CatEntrada))),
                 entradas(t))

\* lines 37-48 on the normalised frame d
Conciliar(d) ==
    LET t == transferencias_df(d)
    IN  pd_merge(saidas(t), entradas(t))

\* line 54: dt.to_period('M')
to_period(data) == [y |-> data.y, m |-> data.m]

MesLess(a, b) == a.y < b.y \/ (a.y = b.y /\ a.m < b.m)

CodePoint(c) == CASE c = "A" -> 65 [] c = "B" -> 66 [] c = "C" -> 67

\* Python's str < str: by code point, a proper prefix first
RECURSIVE StrLess(_, _)
StrLess(a, b) ==
    IF b = <<>> THEN FALSE
    ELSE IF a = <<>> THEN TRUE
    ELSE IF Head(a) # Head(b) THEN CodePoint(Head(a)) < CodePoint(Head(b))
    ELSE StrLess(Tail(a), Tail(b))

\* the order of the group keys (Mês, Conta Origem, Conta Destino)
KeyLess(a, b) ==
    \/ MesLess(a.mes, b.mes)
    \/ a.mes = b.mes /\ StrLess(a.origem.s, b.origem.s)
    \/ a.mes = b.mes /\ a.origem = b.origem /\ StrLess(a.destino.s, b.destino.s)

RECURSIVE SortKeys(_)
SortKeys(K) ==
    IF K = {} THEN <<>>
    ELSE LET k == CHOOSE x \in K : \A z \in K \ {x} : KeyLess(x, z)
         IN  <<k>> \o SortKeys(K \ {k})

GroupKey(r) == [mes |-> to_period(r.data), origem |-> r.origem, destino |-> r.destino]

\* groupby drops the rows with a missing value in a key (dropna=True)
GroupKeys(c) ==
    {GroupKey(c[i]) : i \in {j \in 1..Len(c) : ~IsNA(c[j].origem) /\ ~IsNA(c[j].destino)}}

\* line 55: groupby(['Mês', 'Conta Origem', 'Conta Destino'])
\* ['Valor Absoluto'].sum().reset_index(): one row per key, keys ascending
groupby_sum(c) ==
    LET ks == SortKeys(GroupKeys(c))
    IN  [i \in 1..Len(ks) |->
            LET g == SelectSeq(c, LAMBDA r : GroupKey(r) = ks[i])
            IN  [mes       |-> ks[i].mes,
                 origem    |-> ks[i].origem,
                 destino   |-> ks[i].destino,
                 valor_abs |-> group_sum([j \in 1..Len(g) |-> g[j].valor_abs])]]

Perms(n) == {p \in [1..n -> 1..n] : \A i, j \in 1..n : i # j => p[i] # p[j]}

\* line 58: resultado.sort_values('Mês') with the default kind, quicksort,
\* which is not stable: every ordering that is ascending by month
sort_values(r) ==
    {[i \in 1..Len(r) |-> r[p[i]]] : p \in
        {q \in Perms(Len(r)) :
            \A i \in 1..(Len(r) - 1) : ~MesLess(r[q[i + 1]].mes, r[q[i]].mes)}}

(***************************************************************************)
(* Rendering.                                                              *)
(***************************************************************************)
TwoDigits(n) == <<DigitChar(n \div 10), DigitChar(n % 10)>>

FourDigits(n) == TwoDigits(n \div 100) \o TwoDigits(n % 100)

\* strftime('%d/%m/%Y')
strftime(d, m, y) == TwoDigits(d) \o <<"/">> \o TwoDigits(m) \o <<"/">> \o FourDigits(y)

RECURSIVE Grouped(_)
Grouped(ds) ==
    IF Len(ds) <= 3 THEN ds
    ELSE Grouped(SubSeq(ds, 1, Len(ds) - 3)) \o <<",">> \o SubSeq(ds, Len(ds) - 2, Len(ds))

\* f"{valor_total:,.2f}" of a number of hundredths
FormatComma2f(cents) ==
    Grouped(NatToDigits(cents \div 100)) \o <<".">> \o TwoDigits(cents % 100)

\* line 66: Decimal(row['Valor Absoluto']).quantize(Decimal('0.01'),
\* rounding=ROUND_HALF_UP), in hundredths
valor_total(x) == QuantizeCents(x)

\* line 67
valor_formatado(x) ==
    StrReplace(StrReplace(StrReplace(FormatComma2f(valor_total(x)),
        ",", <<"X">>), ".", <<",">>), "X", <<".">>)

Linha(tipo, inicio, fim, origem, destino, valor) ==
    [tipo |-> tipo, inicio_mes |-> inicio, fim_mes |-> fim,
     origem |-> origem, destino |-> destino, valor |-> valor]

\* line 63: "### {inicio_mes} a {fim_mes}"
Titulo(mes) ==
    Linha("titulo", strftime(1, mes.m, mes.y),
          strftime(DaysInMonth(mes.y, mes.m), mes.m, mes.y), <<>>, <<>>, <<>>)

\* line 68: "- **Transferência de {origem} para {destino}:** R$ {valor}"
Item(row) ==
    Linha("item", <<>>, <<>>, row.origem.s, row.destino.s, valor_formatado(row.valor_abs))

\* line 69: "---"
Separador == Linha("separador", <<>>, <<>>, <<>>, <<>>, <<>>)

\* lines 60-69: resultado.groupby('Mês') yields the months ascending, each
\* with its rows in the order they have in resultado
RECURSIVE Blocos(_, _)
Blocos(r, meses) ==
    IF meses = <<>> THEN <<>>
    ELSE LET g == SelectSeq(r, LAMBDA row : row.mes = Head(meses))
         IN  <<Titulo(Head(meses))>> \o [i \in 1..Len(g) |-> Item(g[i])]
                 \o <<Separador>> \o Blocos(r, Tail(meses))

\* the group keys of groupby('Mês'), ascending
RECURSIVE SortMeses(_)
SortMeses(M) ==
    IF M = {} THEN <<>>
    ELSE LET k == CHOOSE x \in M : \A z \in M \ {x} : MesLess(x, z)
         IN  <<k>> \o SortMeses(M \ {k})

Formatar(r) == Blocos(r, SortMeses({r[i].mes : i \in 1..Len(r)}))

(***************************************************************************)
(* The uploaded files.                                                     *)
(***************************************************************************)
SeqsUpTo(S, n) == UNION {[1..k -> S] : k \in 0..n}

\* the cell the reader stores for a ledger line's field: a numeric amount
\* column (float64) holds the number, an object column holds the text
Celula(l, col, dtype) ==
    IF col = ColData THEN l.data
    ELSE IF col = ColValor
         THEN (IF dtype = "float64" THEN ValorDe(l.valor) ELSE l.valor)
    ELSE IF col = ColCategoria THEN l.categoria
    ELSE l.conta

\* lines 84-88: the DataFrame read from a file with the header cols, whose
\* amount column has the dtype given, and the lines ls (RangeIndex from 0)
read_file(cols, dtype, ls) ==
    [columns |-> cols,
     dtypes  |-> [c \in cols |-> IF c = ColValor THEN dtype ELSE "object"],
     rows    |-> [i \in 1..Len(ls) |->
                    [idx |-> i - 1, c |-> [c \in cols |-> Celula(ls[i], c, dtype)]]]]

Todas == {colunas_necessarias[i] : i \in 1..Len(colunas_necessarias)}

(***************************************************************************)
(* The page.                                                               *)
(***************************************************************************)
VARIABLES
    pc,                     \* where the script is
    arquivo,                \* the DataFrame as read from uploaded_file
    df,                     \* the caller's DataFrame object, as it is now
    conciliado_df,          \* processar_conciliacao's local, the merge
    resultado,              \* processar_conciliacao's local, the summary
    resultado_conciliacao,  \* what processar_conciliacao returned
    tela                    \* the Streamlit elements shown, in order

vars == <<pc, arquivo, df, conciliado_df, resultado, resultado_conciliacao, tela>>

NoFrame == [columns |-> {}, dtypes |-> <<>>, rows |-> <<>>]
\* Python's None and a list of lines, as one shape
None == [none |-> TRUE, lista |-> <<>>]
Lista(l) == [none |-> FALSE, lista |-> l]

El(el, colunas, linha) == [el |-> el, colunas |-> colunas, linha |-> linha]

Init ==
    /\ pc = "aguardando"
    /\ arquivo = NoFrame
    /\ df = NoFrame
    /\ conciliado_df = <<>>
    /\ resultado = <<>>
    /\ resultado_conciliacao = None
    /\ tela = <<>>

\* lines 82-90: a file is uploaded and read
Carregar(cols, dtype, ls) ==
    /\ arquivo' = read_file(cols, dtype, ls)
    /\ df' = arquivo'
    /\ tela' = <<El("success", <<>>, Separador)>>
    /\ pc' = "carregado"
    /\ UNCHANGED <<conciliado_df, resultado, resultado_conciliacao>>

\* mutant of ErroColunas: return [] in place of return None
ErroColunas_lista_vazia ==
    /\ pc = "carregado"
    /\ ~TemColunas(df)
    /\ tela' = Append(tela, El("error", colunas_necessarias, Separador))
    /\ resultado_conciliacao' = Lista(<<>>)
    /\ pc' = "processado"
    /\ UNCHANGED <<arquivo, df, conciliado_df, resultado>>

\* lines 22-24: a required column is missing
ErroColunas ==
    /\ pc = "carregado"
    /\ ~TemColunas(df)
    /\ tela' = Append(tela, El("error", colunas_necessarias, Separador))
    /\ resultado_conciliacao' = None
    /\ pc' = "processado"
    /\ UNCHANGED <<arquivo, df, conciliado_df, resultado>>

\* lines 26-71: the whole of processar_conciliacao on a frame with the
\* required columns
processar_conciliacao ==
    /\ pc = "carregado"
    /\ TemColunas(df)
    /\ df' = Normalizar(df)
    /\ conciliado_df' = Conciliar(df')
    /\ IF conciliado_df' = <<>>
       THEN /\ resultado' = <<>>
            /\ resultado_conciliacao' = Lista(<<>>)
       ELSE /\ resultado' \in sort_values(groupby_sum(conciliado_df'))
            /\ resultado_conciliacao' = Lista(Formatar(resultado'))
    /\ pc' = "processado"
    /\ UNCHANGED <<arquivo, tela>>

\* lines 95-101
Exibir ==
    /\ pc = "processado"
    /\ tela' =
          IF resultado_conciliacao.none THEN tela
          ELSE IF resultado_conciliacao.lista = <<>>
               THEN Append(tela, El("warning", <<>>, Separador))
               ELSE tela \o <<El("header", <<>>, Separador)>>
                        \o [i \in 1..Len(resultado_conciliacao.lista) |->
                               El("markdown", <<>>, resultado_conciliacao.lista[i])]
    /\ pc' = "exibido"
    /\ UNCHANGED <<arquivo, df, conciliado_df, resultado, resultado_conciliacao>>

\* the user uploads another file: Streamlit runs the script again
NovoUpload ==
    /\ pc = "exibido"
    /\ pc' = "aguardando"
    /\ arquivo' = NoFrame
    /\ df' = NoFrame
    /\ conciliado_df' = <<>>
    /\ resultado' = <<>>
    /\ resultado_conciliacao' = None
    /\ tela' = <<>>

\* the files with the required columns, as pd.read_csv reads them
CarregarArquivo ==
    /\ pc = "aguardando"
    /\ \E ls \in SeqsUpTo(Linhas, MaxRows) : Carregar(Todas, "object", ls)

\* the same, with the amount column already numeric (pd.read_excel, or a
\* CSV whose amounts are plain numbers)
CarregarNumerico ==
    /\ pc = "aguardando"
    /\ \E ls \in SeqsUpTo(Linhas, MaxRowsNumerico) : Carregar(Todas, "float64", ls)

\* a file that lacks one or more of the required columns
CarregarIncompleto ==
    /\ pc = "aguardando"
    /\ \E cols \in (SUBSET Todas) \ {Todas} :
           \E ls \in SeqsUpTo(Linhas, MaxRowsIncompleto) : Carregar(cols, "object", ls)

Next ==
    \/ CarregarArquivo
    \/ CarregarNumerico
    \/ CarregarIncompleto
    \/ ErroColunas
    \/ processar_conciliacao
    \/ Exibir
    \/ NovoUpload

Spec == Init /\ [][Next]_vars

(***************************************************************************)
(* What the ledger says, read off the file as uploaded.                    *)
(***************************************************************************)
\* processar_conciliacao has just returned
Retornou == pc = "processado"
Processou == Retornou /\ TemColunas(arquivo)

Linhas_do_arquivo == 1..Len(arquivo.rows)

DataLida(i) == DataDe(arquivo.rows[i].c[ColData])

ValorLido(i) ==
    IF arquivo.dtypes[ColValor] = "float64" THEN arquivo.rows[i].c[ColValor]
    ELSE ValorDe(arquivo.rows[i].c[ColValor])

LinhaValida(i) == ~IsNA(DataLida(i)) /\ ~IsNA(ValorLido(i))

Categoria(i) == arquivo.rows[i].c[ColCategoria]

Chave(i) == <<DataLida(i).d, FAbs(ValorLido(i).f)>>

\* the valid rows of a transfer category
Pernas(cat) == {i \in Linhas_do_arquivo : LinhaValida(i) /\ Categoria(i) = Str(cat)}

PernasDaChave(cat, k) == {i \in Pernas(cat) : Chave(i) = k}

Pares == 1..Len(conciliado_df)

ChaveDoPar(j) == <<conciliado_df[j].data, conciliado_df[j].valor_abs>>

Min(a, b) == IF a < b THEN a ELSE b

\* the rank of row i among the valid rows of its category and key
Posicao(cat, i) == Cardinality({j \in PernasDaChave(cat, Chave(i)) : j < i})

\* the file without some of its rows (the index labels are kept)
SemLinhas(excluidas) ==
    [arquivo EXCEPT !.rows = SelectSeq(arquivo.rows, LAMBDA r : (r.idx + 1) \notin excluidas)]

\* the lists processar_conciliacao can return for the matched pairs c
Retornos(c) ==
    IF c = <<>> THEN {<<>>}
    ELSE {Formatar(r) : r \in sort_values(groupby_sum(c))}

lista == resultado_conciliacao.lista

\* the exact sum of the magnitudes of non-negative floats
RECURSIVE SomaExata(_)
SomaExata(v) == IF v = <<>> THEN BigZero ELSE BigAdd(Head(v).mag, SomaExata(Tail(v)))

Erros == {k \in 1..Len(tela) : tela[k].el = "error"}

(***************************************************************************)
(* C1                                                                      *)
(***************************************************************************)
\* C1: for every key (date, absolute amount) the number of matched pairs
\* is the smaller of the numbers of valid outgoing and valid incoming rows
\* with that key, and no row is in two pairs.
C1_ContagemMinima ==
    Processou =>
        /\ \A i \in Pernas(CatSaida) \cup Pernas(CatEntrada) :
              Cardinality({j \in Pares : ChaveDoPar(j) = Chave(i)})
                  = Min(Cardinality(PernasDaChave(CatSaida, Chave(i))),
                        Cardinality(PernasDaChave(CatEntrada, Chave(i))))
        /\ \A j \in Pares : \E i \in Pernas(CatSaida) : Chave(i) = ChaveDoPar(j)
        /\ \A j1, j2 \in Pares :
              j1 # j2 => /\ conciliado_df[j1].idx_saida # conciliado_df[j2].idx_saida
                         /\ conciliado_df[j1].idx_entrada # conciliado_df[j2].idx_entrada

\* a key with two outgoing rows and one incoming row: one leg is dropped
C1_Witness ==
    /\ Processou
    /\ \E i \in Pernas(CatSaida) :
          /\ Cardinality(PernasDaChave(CatSaida, Chave(i))) = 2
          /\ Cardinality(PernasDaChave(CatEntrada, Chave(i))) = 1
          /\ conciliado_df # <<>>

(***************************************************************************)
(* C2                                                                      *)
(***************************************************************************)
\* C2: every matched pair joins the k-th valid outgoing row of a key, in
\* input order, with the k-th valid incoming row of the same key; its
\* source account is the outgoing row's and its destination account the
\* incoming row's.
C2_OrdemDeChegada ==
    Processou =>
        \A j \in Pares :
            LET o == conciliado_df[j].idx_saida + 1
                e == conciliado_df[j].idx_entrada + 1
            IN  /\ o \in Pernas(CatSaida)
                /\ e \in Pernas(CatEntrada)
                /\ Chave(o) = Chave(e)
                /\ Posicao(CatSaida, o) = Posicao(CatEntrada, e)
                /\ conciliado_df[j].origem = arquivo.rows[o].c[ColConta]
                /\ conciliado_df[j].destino = arquivo.rows[e].c[ColConta]

\* O1, O2, I1, I2 of one key, the two incoming rows on different accounts
C2_Witness ==
    /\ Processou
    /\ \E j1, j2 \in Pares :
          /\ j1 # j2
          /\ ChaveDoPar(j1) = ChaveDoPar(j2)
          /\ conciliado_df[j1].destino # conciliado_df[j2].destino
          /\ conciliado_df[j1].origem # conciliado_df[j2].origem

(***************************************************************************)
(* C3                                                                      *)
(***************************************************************************)
\* C3: the totals of the monthly summary rows add up to the absolute
\* amounts of the matched pairs.
C3_Conservacao ==
    Processou =>
        SomaExata([i \in 1..Len(resultado) |-> resultado[i].valor_abs])
            = SomaExata([j \in Pares |-> conciliado_df[j].valor_abs])

(***************************************************************************)
(* C4                                                                      *)
(***************************************************************************)
Outras == {i \in Linhas_do_arquivo : Categoria(i) \notin {Str(CatSaida), Str(CatEntrada)}}

\* C4: a row of another category is in no matched pair, and the matched
\* pairs and the returned lines are those of the file without such rows.
C4_OutrasCategorias ==
    Processou =>
        /\ \A j \in Pares :
              /\ (conciliado_df[j].idx_saida + 1) \notin Outras
              /\ (conciliado_df[j].idx_entrada + 1) \notin Outras
        /\ LET c == Conciliar(Normalizar(SemLinhas(Outras)))
           IN  conciliado_df = c /\ lista \in Retornos(c)

\* a row of another category with the date and amount of a matched pair,
\* ahead of the pair's legs in the file
C4_Witness ==
    /\ Processou
    /\ \E i \in Outras : \E j \in Pares :
          /\ LinhaValida(i)
          /\ Chave(i) = ChaveDoPar(j)
          /\ i - 1 < conciliado_df[j].idx_saida

(***************************************************************************)
(* C5                                                                      *)
(***************************************************************************)
Faltantes == SelectSeq(colunas_necessarias, LAMBDA c : c \notin arquivo.columns)

\* what C5 says apart from the content of the message
C5_Resto ==
    IF TemColunas(arquivo)
    THEN Erros = {} /\ ~resultado_conciliacao.none
    ELSE /\ resultado_conciliacao.none
         /\ lista = <<>>
         /\ df = arquivo
         /\ conciliado_df = <<>>
         /\ resultado = <<>>
         /\ Cardinality(Erros) = 1

C6_VazioSemPares ==
    /\ (pc = "exibido" /\ TemColunas(arquivo)) =>
          (conciliado_df = <<>>) = (\E k \in 1..Len(tela) : tela[k].el = "warning")
    /\ Processou =>
        /\ ~resultado_conciliacao.none
        /\ (conciliado_df = <<>>) = (lista = <<>>)

(***************************************************************************)
(* C7                                                                      *)
(***************************************************************************)
Invalidas == {i \in Linhas_do_arquivo : ~LinhaValida(i)}

\* C7: a row whose date or amount does not parse is dropped before the
\* matching, raises no error and is in no matched pair; the frame, the
\* matched pairs and the returned lines are those of the file without
\* such rows.
C7_LinhasInvalidas ==
    Processou =>
        /\ Erros = {} /\ ~resultado_conciliacao.none
        /\ \A j \in Pares :
              /\ (conciliado_df[j].idx_saida + 1) \notin Invalidas
              /\ (conciliado_df[j].idx_entrada + 1) \notin Invalidas
        /\ LET n == Normalizar(SemLinhas(Invalidas))
               c == Conciliar(n)
           IN  df = n /\ conciliado_df = c /\ lista \in Retornos(c)

\* a transfer row with a bad date and one with a bad amount, each ahead of
\* a leg of a matched pair
C7_Witness ==
    /\ Processou
    /\ \E i1, i2 \in Invalidas : \E j \in Pares :
          /\ IsNA(DataLida(i1))
          /\ IsNA(ValorLido(i2))
          /\ Categoria(i1) \in {Str(CatSaida), Str(CatEntrada)}
          /\ Categoria(i2) \in {Str(CatSaida), Str(CatEntrada)}
          /\ i1 - 1 < conciliado_df[j].idx_saida
          /\ i2 - 1 < conciliado_df[j].idx_entrada

(***************************************************************************)
(* C8                                                                      *)
(***************************************************************************)
Total2005 == ParseNumeric(<<"2", ".", "0", "0", "5">>)
Total2004 == ParseNumeric(<<"2", ".", "0", "0", "4">>)

ItemCom(row, valor) ==
    \E k \in 1..Len(lista) :
        lista[k] = Linha("item", <<>>, <<>>, row.origem.s, row.destino.s, valor)

\* C8: a summary total of 2.005 is rendered as 2,01 (half up) and one of
\* 2.004 as 2,00.
C8_MeioParaCima ==
    Processou =>
        \A i \in 1..Len(resultado) :
            /\ resultado[i].valor_abs = Total2005
                  => ItemCom(resultado[i], <<"2", ",", "0", "1">>)
            /\ resultado[i].valor_abs = Total2004
                  => ItemCom(resultado[i], <<"2", ",", "0", "0">>)

(***************************************************************************)
(* C9                                                                      *)
(***************************************************************************)
Titulos == {k \in 1..Len(lista) : lista[k].tipo = "titulo"}
Itens == {k \in 1..Len(lista) : lista[k].tipo = "item"}
Separadores == {k \in 1..Len(lista) : lista[k].tipo = "separador"}

\* the (month, source, destination) groups of the matched pairs
Grupos ==
    {[mes |-> to_period(conciliado_df[j].data),
      origem |-> conciliado_df[j].origem,
      destino |-> conciliado_df[j].destino] :
        j \in {x \in Pares : ~IsNA(conciliado_df[x].origem) /\ ~IsNA(conciliado_df[x].destino)}}

MesesResumo == {g.mes : g \in Grupos}

\* the heading of the block line k is in
TituloDe(k) == lista[CHOOSE t \in Titulos : t < k /\ \A u \in Titulos : u < k => u <= t]

\* one summary row per group; one heading and one separator per month,
\* the months strictly ascending; the lines are blocks heading, items,
\* separator; every summary row has one item, in the block of its month
C9_Estrutura ==
    /\ Len(resultado) = Cardinality(Grupos)
    /\ {[mes |-> resultado[i].mes, origem |-> resultado[i].origem,
         destino |-> resultado[i].destino] : i \in 1..Len(resultado)} = Grupos
    /\ \A m \in MesesResumo : Cardinality({k \in Titulos : lista[k] = Titulo(m)}) = 1
    /\ Cardinality(Titulos) = Cardinality(MesesResumo)
    /\ Cardinality(Separadores) = Cardinality(MesesResumo)
    /\ \A k1, k2 \in Titulos :
          k1 < k2 => \E m1, m2 \in MesesResumo :
                        /\ lista[k1] = Titulo(m1)
                        /\ lista[k2] = Titulo(m2)
                        /\ MesLess(m1, m2)
    /\ \A k \in 1..Len(lista) :
          /\ k = 1 => lista[k].tipo = "titulo"
          /\ k = Len(lista) => lista[k].tipo = "separador"
          /\ (k > 1 /\ lista[k].tipo = "titulo") => lista[k - 1].tipo = "separador"
          /\ (k < Len(lista) /\ lista[k].tipo = "separador") => lista[k + 1].tipo = "titulo"
          /\ (k < Len(lista) /\ lista[k].tipo = "titulo") => lista[k + 1].tipo = "item"
    /\ Cardinality(Itens) = Cardinality(Grupos)
    /\ \A g \in Grupos :
          Cardinality({k \in Itens : /\ lista[k].origem = g.origem.s
                                     /\ lista[k].destino = g.destino.s
                                     /\ TituloDe(k) = Titulo(g.mes)}) = 1

\* within a block the items ascend by (source account, destination account)
C9_OrdemNoBloco ==
    \A k \in Itens :
        (k + 1) \in Itens =>
            \/ StrLess(lista[k].origem, lista[k + 1].origem)
            \/ /\ lista[k].origem = lista[k + 1].origem
               /\ StrLess(lista[k].destino, lista[k + 1].destino)

C10_SemEfeitos ==
    pc = "processado" =>
        /\ df = arquivo
        /\ tela = <<El("success", <<>>, Separador)>>

=============================================================================
